---- MODULE Spec2Model ----
(***************************************************************************)
(* A model of the cloud-engineering scripts: the shared configuration      *)
(* loader (scripts/common/config.py), the shared helpers                   *)
(* (scripts/common/utils.py) and the main() of the six provider scripts.   *)
(*                                                                         *)
(* Text is modelled as a sequence of atoms.  An atom is one character, or  *)
(* an identifier (such as AWS_ACCESS_KEY_ID) that contains no whitespace,  *)
(* no quote, no '=' and no '#', which the code never looks into.           *)
(***************************************************************************)
EXTENDS Integers, Sequences, FiniteSets, TLC

VARIABLES
    cwd_depth,   \* the number of ancestors of the working directory
    dotenv_at,   \* the directories holding a .env (0: cwd, 1: its parent, ...)
    file,        \* the lines of the .env file the search resolves to
    environ,     \* os.environ: a function from the set keys to their values
    config,      \* the mapping load_config returned
    pc,          \* the position of the run
    ret,         \* the record of the last call of the configuration API
    script,      \* the script whose main() runs
    args,        \* the namespace parse_arguments returned
    provider_config, \* aws_config, gcp_config or azure_config of main()
    tags,        \* the mapping parse_tags returned to main()
    events,      \* what the run did so far, in order: configuration steps,
                 \* prompts, provider SDK calls and closing log messages
    todo,        \* the provider SDK calls that follow in the function being run
    listed,      \* the records the listing function collected
    exc,         \* the exception in flight
    exit_status  \* the status the process exited with, -1 while it runs

\* The variables of a run of a script's main().
run_vars == <<script, args, provider_config, tags, events, todo, listed, exc, exit_status>>

vars == <<cwd_depth, dotenv_at, file, environ, config, pc, ret, run_vars>>

\* Python's None where a string is expected: a text no line or argument can be.
None == <<"<None>">>
\* No exception in flight.
NoException == "none"

-----------------------------------------------------------------------------
(* Bounds of the model.                                                    *)

\* The longest line of a one-line .env file.
MaxLineLen == 5
\* The most lines of a several-line .env file.
MaxLines == 3

-----------------------------------------------------------------------------
(* Text primitives of Python used by the code.                             *)

SP == " "
HASH == "#"
EQ == "="
DQ == "\""
SQ == "'"

\* The characters str.strip() removes.
Whitespace == {" ", "\t", "\n", "\r"}

RECURSIVE LStrip(_)
LStrip(s) == IF s # <<>> /\ Head(s) \in Whitespace THEN LStrip(Tail(s)) ELSE s

RECURSIVE RStrip(_)
RStrip(s) ==
    IF s # <<>> /\ s[Len(s)] \in Whitespace THEN RStrip(SubSeq(s, 1, Len(s) - 1)) ELSE s

\* str.strip()
Strip(s) == RStrip(LStrip(s))

\* c in s
Contains(s, c) == \E i \in 1..Len(s) : s[i] = c

\* s.index(c): the position of the first c in s (s contains c)
FirstIndex(s, c) == CHOOSE i \in 1..Len(s) : s[i] = c /\ \A j \in 1..(i - 1) : s[j] # c

\* s.split(c, 1) of a string that contains c
SplitFirst(s, c) ==
    LET i == FirstIndex(s, c)
    IN  <<SubSeq(s, 1, i - 1), SubSeq(s, i + 1, Len(s))>>

\* s.startswith(c), s.endswith(c) for a one-character c
StartsWith(s, c) == s # <<>> /\ s[1] = c
EndsWith(s, c) == s # <<>> /\ s[Len(s)] = c

\* s[1:-1]
Slice1m1(s) == SubSeq(s, 2, Len(s) - 1)

\* d[key] = value on a dict modelled as a function
DictSet(d, key, value) ==
    [k \in (DOMAIN d) \cup {key} |-> IF k = key THEN value ELSE d[k]]

EmptyDict == [k \in {} |-> <<>>]

-----------------------------------------------------------------------------
(* scripts/common/config.py                                                *)

\* The number of directories find_env_file examines (range(5)).
SearchLevels == 5

\* A search that climbs to the filesystem root whatever the number of
\* directories it has examined.
RECURSIVE FindFromUnbounded(_, _, _, _)
FindFromUnbounded(level, left, depth, at) ==
    IF level \in at THEN level
    ELSE IF level = depth THEN -1
    ELSE FindFromUnbounded(level + 1, left, depth, at)

\* find_env_file: the loop over the current directory and its ancestors,
\* from directory `level`, `left` iterations remaining; the distance of the
\* directory whose .env is returned, or -1 for None.
RECURSIVE FindFrom(_, _, _, _)
FindFrom(level, left, depth, at) ==
    IF left = 0 THEN -1
    ELSE IF level \in at THEN level
    ELSE IF level = depth THEN -1
    ELSE FindFrom(level + 1, left - 1, depth, at)

find_env_file(depth, at) == FindFrom(0, SearchLevels, depth, at)

\* value[1:-1] when the value starts and ends with the same quote character
Unquote(value) ==
    IF StartsWith(value, DQ) /\ EndsWith(value, DQ) THEN Slice1m1(value)
    ELSE IF StartsWith(value, SQ) /\ EndsWith(value, SQ) THEN Slice1m1(value)
    ELSE value

\* IsSkipped without the test for a comment line.
IsSkippedKeepsComments(raw) ==
    LET line == Strip(raw)
    IN  \/ line = <<>>
        \/ ~Contains(line, EQ)

\* The lines the loop passes over: empty after strip(), a comment, or no '='.
IsSkipped(raw) ==
    LET line == Strip(raw)
    IN  \/ line = <<>>
        \/ StartsWith(line, HASH)
        \/ ~Contains(line, EQ)

\* The key and the value the loop derives from a line that is not skipped.
ParseKey(raw) == Strip(SplitFirst(Strip(raw), EQ)[1])
ParseValue(raw) == Unquote(Strip(SplitFirst(Strip(raw), EQ)[2]))

\* os.environ[key] = value raises OSError (EINVAL from setenv) for an empty key.
PutenvFails(key) == key = <<>>

\* LoadLines in which a key keeps the value of its first occurrence.
RECURSIVE LoadLinesFirstWins(_, _, _)
LoadLinesFirstWins(lines, cfg, env) ==
    IF lines = <<>> THEN [raised |-> NoException, config |-> cfg, environ |-> env]
    ELSE IF IsSkipped(Head(lines)) THEN LoadLinesFirstWins(Tail(lines), cfg, env)
    ELSE LET key == ParseKey(Head(lines))
             value == ParseValue(Head(lines))
         IN  IF PutenvFails(key)
             THEN [raised |-> "OSError", config |-> EmptyDict, environ |-> env]
             ELSE IF key \in DOMAIN cfg
             THEN LoadLinesFirstWins(Tail(lines), cfg, env)
             ELSE LoadLinesFirstWins(Tail(lines), DictSet(cfg, key, value),
                                     DictSet(env, key, value))

\* LoadLines that fills the mapping and leaves os.environ alone.
RECURSIVE LoadLinesNoMirror(_, _, _)
LoadLinesNoMirror(lines, cfg, env) ==
    IF lines = <<>> THEN [raised |-> NoException, config |-> cfg, environ |-> env]
    ELSE IF IsSkipped(Head(lines)) THEN LoadLinesNoMirror(Tail(lines), cfg, env)
    ELSE LET key == ParseKey(Head(lines))
             value == ParseValue(Head(lines))
         IN  IF PutenvFails(key)
             THEN [raised |-> "OSError", config |-> EmptyDict, environ |-> env]
             ELSE LoadLinesNoMirror(Tail(lines), DictSet(cfg, key, value), env)

\* The body of load_config's loop over the remaining lines, with the mapping
\* and the environment built so far.
RECURSIVE LoadLines(_, _, _)
LoadLines(lines, cfg, env) ==
    IF lines = <<>> THEN [raised |-> NoException, config |-> cfg, environ |-> env]
    ELSE IF IsSkipped(Head(lines)) THEN LoadLines(Tail(lines), cfg, env)
    ELSE LET key == ParseKey(Head(lines))
             value == ParseValue(Head(lines))
         IN  IF PutenvFails(key)
             THEN [raised |-> "OSError", config |-> EmptyDict, environ |-> env]
             ELSE LoadLines(Tail(lines), DictSet(cfg, key, value),
                            DictSet(env, key, value))

\* load_config on a file system and an environment: what it raises, the
\* mapping it returns and the environment it leaves.
load_config(depth, at, lines, env) ==
    IF find_env_file(depth, at) = -1
    THEN [raised |-> "FileNotFoundError", config |-> EmptyDict, environ |-> env]
    ELSE LoadLines(lines, EmptyDict, env)

\* get_env that tests the environment, not the resolved value, when required.
GetEnvRequiredIgnoresDefault(env, key, default, required) ==
    LET value == IF key \in DOMAIN env THEN env[key] ELSE default
    IN  IF required /\ key \notin DOMAIN env
        THEN [raised |-> "ValueError", value |-> None, environ |-> env]
        ELSE [raised |-> NoException, value |-> value, environ |-> env]

\* get_env: os.environ.get(key, default), ValueError when required and None.
\* What it raises, the value it returns and the environment it leaves.
get_env(env, key, default, required) ==
    LET value == IF key \in DOMAIN env THEN env[key] ELSE default
    IN  IF required /\ value = None
        THEN [raised |-> "ValueError", value |-> None, environ |-> env]
        ELSE [raised |-> NoException, value |-> value, environ |-> env]

\* One entry of an accessor's dict literal: the field, and get_env's arguments.
Field(name, key, default, required) ==
    [name |-> name, key |-> <<key>>, default |-> default, required |-> required]

AwsFields ==
    << Field("access_key_id", "AWS_ACCESS_KEY_ID", None, TRUE),
       Field("secret_access_key", "AWS_SECRET_ACCESS_KEY", None, TRUE),
       Field("region", "AWS_DEFAULT_REGION", <<"us-east-1">>, FALSE),
       Field("session_token", "AWS_SESSION_TOKEN", None, FALSE) >>

GcpFields ==
    << Field("credentials_path", "GOOGLE_APPLICATION_CREDENTIALS", None, TRUE),
       Field("project_id", "GCP_PROJECT_ID", None, TRUE),
       Field("region", "GCP_REGION", <<"us-central1">>, FALSE),
       Field("zone", "GCP_ZONE", <<"us-central1-a">>, FALSE) >>

AzureFields ==
    << Field("subscription_id", "AZURE_SUBSCRIPTION_ID", None, TRUE),
       Field("tenant_id", "AZURE_TENANT_ID", None, TRUE),
       Field("client_id", "AZURE_CLIENT_ID", None, TRUE),
       Field("client_secret", "AZURE_CLIENT_SECRET", None, TRUE),
       Field("location", "AZURE_LOCATION", <<"eastus">>, FALSE) >>

\* DictOfGetEnv that returns the mapping whatever get_env raised.
DictOfGetEnvLenient(fields, env) ==
    LET got == [i \in 1..Len(fields) |->
                   get_env(env, fields[i].key, fields[i].default, fields[i].required)]
    IN  [raised |-> NoException,
         value |-> [n \in {fields[i].name : i \in 1..Len(fields)} |->
                       got[CHOOSE i \in 1..Len(fields) : fields[i].name = n].value]]

\* A dict literal whose entries are get_env calls, evaluated in order: the
\* first call that raises ends the evaluation.
DictOfGetEnv(fields, env) ==
    LET got == [i \in 1..Len(fields) |->
                   get_env(env, fields[i].key, fields[i].default, fields[i].required)]
    IN  IF \E i \in 1..Len(fields) : got[i].raised # NoException
        THEN [raised |-> "ValueError", value |-> EmptyDict]
        ELSE [raised |-> NoException,
              value |-> [n \in {fields[i].name : i \in 1..Len(fields)} |->
                            got[CHOOSE i \in 1..Len(fields) : fields[i].name = n].value]]

get_aws_config(env) == DictOfGetEnv(AwsFields, env)
get_gcp_config(env) == DictOfGetEnv(GcpFields, env)
get_azure_config(env) == DictOfGetEnv(AzureFields, env)

Providers == {"aws", "gcp", "azure"}
ProviderFields(p) ==
    IF p = "aws" THEN AwsFields ELSE IF p = "gcp" THEN GcpFields ELSE AzureFields
\* An accessor that returns its mapping whatever is missing.
GetProviderConfigLenient(p, env) == DictOfGetEnvLenient(ProviderFields(p), env)

get_provider_config(p, env) ==
    IF p = "aws" THEN get_aws_config(env)
    ELSE IF p = "gcp" THEN get_gcp_config(env)
    ELSE get_azure_config(env)

-----------------------------------------------------------------------------
(* The configuration API called on its own: load_config on a file system,  *)
(* then get_env or a provider accessor.                                    *)

\* The characters of the lines of the one-line files.
Alphabet == {SP, HASH, EQ, DQ, SQ, "a"}

LinesUpTo(n) == UNION {[1..k -> Alphabet] : k \in 0..n}

\* The lines of the several-line files.
SampleLines ==
    { <<>>,
      <<SP>>,
      <<HASH, "a", EQ, "a">>,
      <<"a">>,
      <<"a", EQ, "a">>,
      <<"a", EQ>>,
      <<SP, "a", SP, EQ, SP, DQ, "a", DQ, SP>>,
      <<"a", "a", EQ, SQ, "a">>,
      <<EQ, "a">>,
      <<"a", EQ, "a", EQ, "a">>,
      <<"a", "a", EQ, DQ>> }

SeqsUpTo(S, n) == UNION {[1..k -> S] : k \in 0..n}

\* The .env file that sets the keys of `fields` chosen by `chosen` to "v".
FileOfKeys(fields, chosen) ==
    LET Chosen(f) == f.key \in chosen
        sel == SelectSeq(fields, Chosen)
    IN  [i \in 1..Len(sel) |-> sel[i].key \o <<EQ, "v">>]

FieldKeys(fields) == {fields[i].key : i \in 1..Len(fields)}

ProviderFiles ==
    UNION {{FileOfKeys(ProviderFields(p), c) : c \in SUBSET FieldKeys(ProviderFields(p))}
           : p \in Providers}

ConfigFiles ==
    {<<l>> : l \in LinesUpTo(MaxLineLen)} \cup SeqsUpTo(SampleLines, MaxLines)
        \cup ProviderFiles

\* The environment the process starts with.
InitialEnvirons == {EmptyDict, [k \in {<<"a">>} |-> <<"e">>]}

GetEnvKeys == {<<"a">>, <<"a", "a">>}
GetEnvDefaults == {None, <<"d">>}

NoCall == [fn |-> "none"]

\* No script invoked: no arguments, no exception.
NoArgs == [dry_run |-> FALSE]
NoExc == [type |-> NoException, code |-> "", at |-> ""]

InitConfig ==
    /\ \/ /\ cwd_depth = 0
          /\ dotenv_at = {}
          /\ file = <<>>
       \/ /\ cwd_depth = 1
          /\ dotenv_at = {1}
          /\ file \in ConfigFiles
    /\ environ \in InitialEnvirons
    /\ config = EmptyDict
    /\ pc = "start"
    /\ ret = NoCall
    /\ script = "none"
    /\ args = NoArgs
    /\ provider_config = EmptyDict
    /\ tags = EmptyDict
    /\ events = <<>>
    /\ todo = <<>>
    /\ listed = <<>>
    /\ exc = NoExc
    /\ exit_status = -1

\* config = load_config()
LoadConfig ==
    /\ pc = "start"
    /\ LET r == load_config(cwd_depth, dotenv_at, file, environ)
       IN  /\ environ' = r.environ
           /\ config' = r.config
           /\ ret' = [fn |-> "load_config", raised |-> r.raised,
                      environ_before |-> environ]
    /\ pc' = "loaded"
    /\ UNCHANGED <<cwd_depth, dotenv_at, file, run_vars>>

\* get_env(key, default, required)
GetEnv ==
    /\ pc = "loaded"
    /\ \E key \in GetEnvKeys, default \in GetEnvDefaults, required \in BOOLEAN :
          LET r == get_env(environ, key, default, required)
          IN  /\ ret' = [fn |-> "get_env", key |-> key, default |-> default,
                         required |-> required, raised |-> r.raised,
                         value |-> r.value, environ_before |-> environ]
              /\ environ' = r.environ
    /\ pc' = "returned"
    /\ UNCHANGED <<cwd_depth, dotenv_at, file, config, run_vars>>

\* get_aws_config(), get_gcp_config() or get_azure_config()
GetProviderConfig ==
    /\ pc = "loaded"
    /\ \E p \in Providers :
          LET r == get_provider_config(p, environ)
          IN  ret' = [fn |-> "get_provider_config", provider |-> p,
                      raised |-> r.raised, value |-> r.value]
    /\ pc' = "returned"
    /\ UNCHANGED <<cwd_depth, dotenv_at, file, environ, config, run_vars>>

NextConfig == LoadConfig \/ GetEnv \/ GetProviderConfig

SpecConfig == InitConfig /\ [][NextConfig]_vars

-----------------------------------------------------------------------------
(* What the specification says of a line of the .env file, stated without  *)
(* the operators of the loader.                                            *)

NonBlank(s) == {i \in 1..Len(s) : s[i] \notin Whitespace}
Min(S) == CHOOSE x \in S : \A y \in S : x <= y
Max(S) == CHOOSE x \in S : \A y \in S : y <= x

\* s without its leading and trailing whitespace
Trim(s) == IF NonBlank(s) = {} THEN <<>> ELSE SubSeq(s, Min(NonBlank(s)), Max(NonBlank(s)))

EqAt(s) == {i \in 1..Len(s) : s[i] = EQ}

\* An empty line, a line whose first non-whitespace character is '#', or a
\* line without '='.
SkippedLine(s) ==
    \/ NonBlank(s) = {}
    \/ s[Min(NonBlank(s))] = HASH
    \/ EqAt(s) = {}

\* The trimmed text before the first '=' of a line that is not skipped.
KeyOfLine(s) == Trim(SubSeq(s, 1, Min(EqAt(s)) - 1))

\* The trimmed text after the first '=', less one layer of matching quotes
\* when it is enclosed in a pair of them.
ValueOfLine(s) ==
    LET v == Trim(SubSeq(s, Min(EqAt(s)) + 1, Len(s)))
    IN  IF Len(v) >= 2 /\ v[1] \in {DQ, SQ} /\ v[Len(v)] = v[1]
        THEN SubSeq(v, 2, Len(v) - 1)
        ELSE v

\* The lines of the file that set `key`.
Occurrences(lines, key) ==
    {i \in 1..Len(lines) : ~SkippedLine(lines[i]) /\ KeyOfLine(lines[i]) = key}

KeysOfFile(lines) ==
    {KeyOfLine(lines[i]) : i \in {j \in 1..Len(lines) : ~SkippedLine(lines[j])}}

LoadReturned == pc = "loaded" /\ ret.raised = NoException

\* C5: when load_config returns, a key that occurs on several KEY=VALUE
\* lines of the file holds, in the returned mapping and in the process
\* environment, the value of its last occurrence.
C5_LastOccurrenceWins ==
    LoadReturned =>
        \A key \in KeysOfFile(file) :
            Cardinality(Occurrences(file, key)) >= 2 =>
                LET last == ParseValue(file[Max(Occurrences(file, key))])
                IN  /\ key \in DOMAIN config /\ config[key] = last
                    /\ key \in DOMAIN environ /\ environ[key] = last

\* A file loaded in which a key occurs twice, with two different values.
C5_Witness ==
    /\ LoadReturned
    /\ \E key \in KeysOfFile(file) :
          /\ Cardinality(Occurrences(file, key)) >= 2
          /\ ParseValue(file[Min(Occurrences(file, key))])
                # ParseValue(file[Max(Occurrences(file, key))])
          /\ config[key] = ParseValue(file[Max(Occurrences(file, key))])

\* C6: for every well-formed line KEY=VALUE, load_config stores under the
\* trimmed key the trimmed text after the first '=', with one layer of quotes
\* removed when that text is enclosed in a matching pair of quotes, and
\* unchanged otherwise.
C6_StoresTrimmedUnquotedValue ==
    LoadReturned =>
        \A i \in 1..Len(file) :
            (~SkippedLine(file[i]) /\ i = Max(Occurrences(file, KeyOfLine(file[i])))) =>
                /\ KeyOfLine(file[i]) \in DOMAIN config
                /\ config[KeyOfLine(file[i])] = ValueOfLine(file[i])

\* C7: load_config skips empty lines, comment lines and lines without '=':
\* the outcome is the outcome on the file without them, a file of skipped
\* lines only leaves the mapping empty and the environment as it was, and the
\* keys of the returned mapping are the trimmed keys of the remaining lines.
C7_SkippedLinesHaveNoEffect ==
    pc = "loaded" =>
        LET NotSkipped(l) == ~SkippedLine(l)
            kept == SelectSeq(file, NotSkipped)
            r == load_config(cwd_depth, dotenv_at, kept, ret.environ_before)
        IN  /\ ret.raised = r.raised
            /\ config = r.config
            /\ environ = r.environ
            /\ (kept = <<>> /\ ret.raised # "FileNotFoundError") =>
                    /\ ret.raised = NoException
                    /\ config = EmptyDict
                    /\ environ = ret.environ_before
            /\ ret.raised = NoException => DOMAIN config = KeysOfFile(file)

\* A file loaded that holds a comment line with an '=' and a line that sets a key.
C7_Witness ==
    /\ LoadReturned
    /\ \E i \in 1..Len(file) :
          /\ SkippedLine(file[i])
          /\ EqAt(file[i]) # {}
    /\ \E i \in 1..Len(file) : ~SkippedLine(file[i])
    /\ DOMAIN config = KeysOfFile(file)

\* C8: after load_config returns, every key of the returned mapping is set in
\* the environment with the mapping's value, and get_env of a loaded key
\* returns that value.
C8_ConfigMirroredInEnviron ==
    /\ (pc # "start") =>
          \A key \in DOMAIN config :
              key \in DOMAIN environ /\ environ[key] = config[key]
    /\ (pc = "returned" /\ ret.fn = "get_env" /\ ret.key \in DOMAIN config) =>
          /\ ret.raised = NoException
          /\ ret.value = config[ret.key]

\* get_env returned the value the file gives a key the process did not
\* start with.
C8_Witness ==
    /\ pc = "returned"
    /\ ret.fn = "get_env"
    /\ ret.key \in DOMAIN config
    /\ ret.key = <<"a", "a">>
    /\ ret.default # None
    /\ ret.value = config[ret.key]
    /\ ret.value # ret.default

\* C9: get_env raises the missing-variable error exactly when required is
\* true, the key is not set and the default is None; otherwise it returns the
\* environment value when the key is set and the default when it is not; and
\* it leaves the environment as it was.
C9_GetEnvContract ==
    (pc = "returned" /\ ret.fn = "get_env") =>
        LET isSet == ret.key \in DOMAIN ret.environ_before
        IN  /\ ret.raised \in {NoException, "ValueError"}
            /\ ret.raised = "ValueError" <=>
                    (ret.required /\ ~isSet /\ ret.default = None)
            /\ ret.raised = NoException =>
                    ret.value = IF isSet THEN ret.environ_before[ret.key]
                                ELSE ret.default
            /\ environ = ret.environ_before

\* get_env with required=True returned the default of a key that is not set.
C9_Witness ==
    /\ pc = "returned"
    /\ ret.fn = "get_env"
    /\ ret.required
    /\ ret.key \notin DOMAIN environ
    /\ ret.default # None
    /\ ret.raised = NoException
    /\ ret.value = ret.default

\* C10: a provider accessor raises the missing-variable error exactly when a
\* required key of the provider is unset; otherwise it returns a mapping in
\* which every required key holds its environment value (not None) and every
\* optional key with a default holds the environment value or that default.
C10_ProviderAccessorContract ==
    (pc = "returned" /\ ret.fn = "get_provider_config") =>
        LET fields == ProviderFields(ret.provider)
            F == {fields[i] : i \in 1..Len(fields)}
            missing == {f \in F : f.required /\ f.key \notin DOMAIN environ}
        IN  /\ ret.raised \in {NoException, "ValueError"}
            /\ ret.raised = "ValueError" <=> missing # {}
            /\ ret.raised = NoException =>
                    \A f \in F :
                        /\ f.name \in DOMAIN ret.value
                        /\ f.required =>
                              /\ ret.value[f.name] # None
                              /\ ret.value[f.name] = environ[f.key]
                        /\ (~f.required /\ f.default # None) =>
                              ret.value[f.name] =
                                  IF f.key \in DOMAIN environ THEN environ[f.key]
                                  ELSE f.default

\* An accessor returned a mapping whose optional key holds its default.
C10_Witness ==
    /\ pc = "returned"
    /\ ret.fn = "get_provider_config"
    /\ ret.raised = NoException
    /\ \E i \in 1..Len(ProviderFields(ret.provider)) :
          LET f == ProviderFields(ret.provider)[i]
          IN  /\ ~f.required
              /\ f.default # None
              /\ f.key \notin DOMAIN environ
              /\ ret.value[f.name] = f.default

-----------------------------------------------------------------------------
(* scripts/common/utils.py                                                 *)

\* str.lower() on the letters a response is made of
LowerOf == [c \in {"Y", "E", "S", "N", "O"} |->
               CASE c = "Y" -> "y" [] c = "E" -> "e" [] c = "S" -> "s"
                 [] c = "N" -> "n" [] c = "O" -> "o"]
Lower(s) == [i \in 1..Len(s) |-> IF s[i] \in DOMAIN LowerOf THEN LowerOf[s[i]] ELSE s[i]]

\* A confirmation that compares the stripped line without lower-casing it.
ConfirmActionCaseSensitive(line, default) ==
    LET response == Strip(line)
    IN  IF response = <<>> THEN default
        ELSE response \in {<<"y">>, <<"y", "e", "s">>}

\* confirm_action: the line read from input(), stripped and lower-cased;
\* the default when it is empty, else whether it is 'y' or 'yes'.
confirm_action(line, default) ==
    LET response == Lower(Strip(line))
    IN  IF response = <<>> THEN default
        ELSE response \in {<<"y">>, <<"y", "e", "s">>}

\* A loop that gives up at the first entry without '='.
RECURSIVE ParseTagListStopsAtInvalid(_, _, _)
ParseTagListStopsAtInvalid(tag_list, acc, warnings) ==
    IF tag_list = <<>> THEN [tags |-> acc, warnings |-> warnings]
    ELSE IF Contains(Head(tag_list), EQ)
    THEN LET kv == SplitFirst(Head(tag_list), EQ)
         IN  ParseTagListStopsAtInvalid(Tail(tag_list),
                                        DictSet(acc, Strip(kv[1]), Strip(kv[2])), warnings)
    ELSE [tags |-> acc, warnings |-> warnings + 1]

\* The loop of parse_tags: the mapping and the number of warnings printed.
RECURSIVE ParseTagList(_, _, _)
ParseTagList(tag_list, acc, warnings) ==
    IF tag_list = <<>> THEN [tags |-> acc, warnings |-> warnings]
    ELSE IF Contains(Head(tag_list), EQ)
    THEN LET kv == SplitFirst(Head(tag_list), EQ)
         IN  ParseTagList(Tail(tag_list), DictSet(acc, Strip(kv[1]), Strip(kv[2])), warnings)
    ELSE ParseTagList(Tail(tag_list), acc, warnings + 1)

\* parse_tags(tag_list); an empty list stands for None as well
parse_tags(tag_list) ==
    IF tag_list = <<>> THEN [tags |-> EmptyDict, warnings |-> 0]
    ELSE ParseTagList(tag_list, EmptyDict, 0)

-----------------------------------------------------------------------------
(* The six scripts: scripts/aws, scripts/azure, scripts/gcp.               *)

\* The most records one listing call returns, and the most zones of a project.
MaxInstances == 2
MaxZones == 2

Scripts ==
    {"list_ec2", "provision_s3", "list_vms", "provision_storage",
     "list_compute", "provision_bucket"}

ProviderOf(s) ==
    IF s \in {"list_ec2", "provision_s3"} THEN "aws"
    ELSE IF s \in {"list_vms", "provision_storage"} THEN "azure"
    ELSE "gcp"

IsProvisioning(s) == s \in {"provision_s3", "provision_storage", "provision_bucket"}

\* The exceptions the handlers of main() tell apart, by provider SDK: what
\* building a client object raises, and what a call of the service raises.
Exc(type, code) == [type |-> type, code |-> code]
SdkRaises(provider, effect) ==
    IF provider = "aws"
    THEN IF effect = "construct" THEN {Exc("Exception", "")}
         ELSE {Exc("NoCredentialsError", ""), Exc("ClientError", "BucketAlreadyExists"),
               Exc("ClientError", "BucketAlreadyOwnedByYou"),
               Exc("ClientError", "AccessDenied"), Exc("Exception", "")}
    ELSE IF provider = "azure"
    THEN IF effect = "construct" THEN {Exc("Exception", "")}
         ELSE {Exc("AzureError", ""), Exc("Exception", "")}
    ELSE IF effect = "construct"
    THEN {Exc("DefaultCredentialsError", ""), Exc("Exception", "")}
    ELSE {Exc("Conflict", ""), Exc("GoogleAPIError", ""), Exc("Exception", "")}

\* How main() ends on an exception: the except clause that matches it.
\* handle_error logs and calls sys.exit(1); a clause that only logs lets
\* main() fall off its end, which returns None.
Handler(s, e) ==
    IF s = "provision_s3" /\ e.type = "ClientError"
    THEN IF e.code \in {"BucketAlreadyExists", "BucketAlreadyOwnedByYou"}
         THEN "return None"
         ELSE "sys.exit(1)"
    ELSE IF s = "list_ec2" /\ e.type = "ClientError" THEN "sys.exit(1)"
    ELSE IF e.type \in {"NoCredentialsError", "AzureError", "DefaultCredentialsError",
                        "FileNotFoundError"}
    THEN "return 1"
    ELSE IF s = "provision_bucket" /\ e.type \in {"Conflict", "GoogleAPIError"}
    THEN "return 1"
    ELSE "sys.exit(1)"

\* sys.exit(main()): the exit status of the process.
ExitStatus(how) ==
    CASE how = "return 0" -> 0
      [] how = "return 1" -> 1
      [] how = "return None" -> 0
      [] how = "sys.exit(1)" -> 1

\* One entry of the record of the run.
Event(kind, name, effect, result, detail) ==
    [kind |-> kind, name |-> name, effect |-> effect, result |-> result, detail |-> detail]
Log(name) == Event("log", name, "", "", "")

\* A provider SDK call: what it is, whether it builds a client object, reads
\* or writes, an argument worth recording, whether a try/except around it
\* swallows what it raises, and what its result is iterated for.
Call(name, effect, detail) ==
    [name |-> name, effect |-> effect, detail |-> detail, swallow |-> FALSE,
     yields |-> "none"]
Listing(name, detail, swallow, yields) ==
    [name |-> name, effect |-> "read", detail |-> detail, swallow |-> swallow,
     yields |-> yields]

Opt(cond, call) == IF cond THEN <<call>> ELSE <<>>

\* A create_s3_bucket that turns versioning on after everything else.
S3CallsVersioningLast(region, a, tg) ==
    << Call("boto3.client", "construct", ""),
       Call("create_bucket", "write",
            IF region = <<"us-east-1">> THEN "" ELSE "LocationConstraint"),
       Call("put_public_access_block", "write", "block all"),
       Call("put_bucket_encryption", "write", a.encryption) >>
    \o Opt(tg # EmptyDict, Call("put_bucket_tagging", "write", ""))
    \o Opt(a.versioning, Call("put_bucket_versioning", "write", "Enabled"))

\* create_s3_bucket
S3Calls(region, a, tg) ==
    << Call("boto3.client", "construct", ""),
       Call("create_bucket", "write",
            IF region = <<"us-east-1">> THEN "" ELSE "LocationConstraint"),
       Call("put_public_access_block", "write", "block all") >>
    \o Opt(a.versioning, Call("put_bucket_versioning", "write", "Enabled"))
    \o << Call("put_bucket_encryption", "write", a.encryption) >>
    \o Opt(tg # EmptyDict, Call("put_bucket_tagging", "write", ""))

\* create_storage_account
StorageAccountCalls ==
    << Call("StorageManagementClient", "construct", ""),
       Call("storage_accounts.begin_create", "write", ""),
       Call("poller.result", "write", "") >>

\* create_storage_bucket
StorageBucketCalls(a, labels) ==
    << Call("storage.Client", "construct", ""),
       Call("storage_client.bucket", "construct", ""),
       Call("storage_client.create_bucket", "write", "") >>
    \o Opt(a.versioning, Call("bucket.patch", "write", "versioning_enabled"))
    \o Opt(labels # EmptyDict, Call("bucket.patch", "write", "labels"))

\* region = args.region or aws_config['region']
Region(a, cfg) == IF a.region # None /\ a.region # <<>> THEN a.region ELSE cfg["region"]

CreateCalls(s, a, cfg, tg) ==
    IF s = "provision_s3" THEN S3Calls(Region(a, cfg), a, tg)
    ELSE IF s = "provision_storage" THEN StorageAccountCalls
    ELSE StorageBucketCalls(a, tg)

Given(x) == x # None /\ x # <<>>

\* list_ec2_instances, list_virtual_machines, list_compute_instances up to
\* the call whose result they iterate.
ListCalls(s, a) ==
    IF s = "list_ec2"
    THEN << Call("boto3.client", "construct", ""),
            Listing("describe_instances", IF Given(a.status) THEN "Filters" ELSE "",
                    FALSE, "instances") >>
    ELSE IF s = "list_vms"
    THEN << Call("ComputeManagementClient", "construct", ""),
            Listing(IF Given(a.group) THEN "virtual_machines.list"
                    ELSE "virtual_machines.list_all", "", FALSE, "vms") >>
    ELSE IF Given(a.zone)
    THEN << Call("InstancesClient", "construct", ""),
            Listing("instances_client.list", "zone", FALSE, "instances") >>
    ELSE << Call("InstancesClient", "construct", ""),
            Call("ZonesClient", "construct", ""),
            Listing("zones_client.list", "", FALSE, "zones") >>

\* str.islower() and str.isalnum() on the characters a name is made of
LowerLetters == {"a", "b"}
UpperLetters == {"A"}
Digits == {"1"}
IsLower(s) ==
    /\ \E i \in 1..Len(s) : s[i] \in LowerLetters \cup UpperLetters
    /\ \A i \in 1..Len(s) : s[i] \notin UpperLetters
IsAlnum(s) ==
    /\ s # <<>>
    /\ \A i \in 1..Len(s) : s[i] \in LowerLetters \cup UpperLetters \cup Digits

\* The storage account name tests of provision_storage's main()
MinNameLen == 3
MaxNameLen == 24
NameLengthOk(name) == MinNameLen <= Len(name) /\ Len(name) <= MaxNameLen
NameCharsOk(name) == ~(~IsLower(name) \/ ~IsAlnum(name))

\* The namespaces parse_arguments returns, by script: the arguments main()
\* branches on or hands to a provider call.
DefaultArgs ==
    [name |-> <<"a", "b", "1">>, region |-> None, versioning |-> FALSE,
     encryption |-> "AES256", tag_list |-> <<>>, dry_run |-> FALSE,
     zone |-> None, group |-> None, status |-> None]

TagLists == {<<>>, << <<"k", EQ, "v">> >>, << <<"b", "a", "d">> >>}
Regions == {None, <<"us-east-1">>, <<"eu-west-1">>}
AccountNames ==
    { <<"a", "b">>, <<"a", "b", "1">>, <<"1", "1", "1">>, <<"A", "b", "1">>,
      <<"a", "-", "b">>, [i \in 1..MaxNameLen |-> "a"], [i \in 1..(MaxNameLen + 1) |-> "a"] }

ArgsOf(s) ==
    IF s = "provision_s3"
    THEN {[DefaultArgs EXCEPT !.region = r, !.versioning = v, !.encryption = e,
                              !.tag_list = t, !.dry_run = d] :
              r \in Regions, v \in BOOLEAN, e \in {"AES256", "aws:kms"},
              t \in TagLists, d \in BOOLEAN}
    ELSE IF s = "provision_storage"
    THEN {[DefaultArgs EXCEPT !.name = n, !.tag_list = t, !.dry_run = d] :
              n \in AccountNames, t \in TagLists, d \in BOOLEAN}
    ELSE IF s = "provision_bucket"
    THEN {[DefaultArgs EXCEPT !.versioning = v, !.tag_list = t, !.dry_run = d] :
              v \in BOOLEAN, t \in TagLists, d \in BOOLEAN}
    ELSE IF s = "list_ec2"
    THEN {[DefaultArgs EXCEPT !.region = r, !.status = f] :
              r \in Regions, f \in {None, <<"running">>}}
    ELSE IF s = "list_vms"
    THEN {[DefaultArgs EXCEPT !.group = g, !.status = f] :
              g \in {None, <<"rg">>}, f \in {None, <<"running">>}}
    ELSE {[DefaultArgs EXCEPT !.zone = z, !.status = f] :
              z \in {None, <<"zone">>}, f \in {None, <<"running">>}}

\* The .env files of the runs: every choice of a provider's keys, and a file
\* whose only line has an empty key.
ScriptFiles == ProviderFiles \cup {<< <<EQ, "v">> >>}

\* The lines typed at the confirmation prompt.
Responses == {<<>>, <<"y">>, <<SP, "Y", "E", "S">>, <<"n">>, <<"y", "e">>}

\* The states a listed machine is in.
Statuses == {<<"running">>, <<"stopped">>}

Init ==
    /\ \/ /\ cwd_depth = 0
          /\ dotenv_at = {}
          /\ file = <<>>
       \/ /\ cwd_depth = 1
          /\ dotenv_at = {1}
          /\ file \in ScriptFiles
    /\ environ = EmptyDict
    /\ config = EmptyDict
    /\ pc = "invoke"
    /\ ret = NoCall
    /\ script = "none"
    /\ args = NoArgs
    /\ provider_config = EmptyDict
    /\ tags = EmptyDict
    /\ events = <<>>
    /\ todo = <<>>
    /\ listed = <<>>
    /\ exc = NoExc
    /\ exit_status = -1

fs_vars == <<cwd_depth, dotenv_at, file>>

\* main() returns or exits: the closing log message and the exit status.
Exit(message, how) ==
    /\ events' = Append(events, Log(message))
    /\ exit_status' = ExitStatus(how)
    /\ pc' = "done"

\* An exception leaves the try block for the except clauses.
Raise(e, at, ev) ==
    /\ exc' = [type |-> e.type, code |-> e.code, at |-> at]
    /\ events' = Append(events, ev)
    /\ pc' = "except"

\* python <script>.py ...: args = parse_arguments(); logger = setup_logger(...)
Invoke ==
    /\ pc = "invoke"
    /\ \E s \in Scripts :
          /\ script' = s
          /\ args' \in ArgsOf(s)
          /\ pc' = IF s = "provision_storage" THEN "validate" ELSE "load_config"
    /\ UNCHANGED <<fs_vars, environ, config, ret, provider_config, tags, events, todo,
                   listed, exc, exit_status>>

\* Name tests that come after the .env file was loaded.
ValidateNameAfterLoadConfig ==
    /\ pc = "validate"
    /\ LET r == load_config(cwd_depth, dotenv_at, file, environ)
           loaded == Event("config", "load_config", "", "ok", "")
       IN  /\ environ' = r.environ
           /\ config' = r.config
           /\ IF ~NameLengthOk(args.name)
              THEN /\ events' = events \o <<loaded, Log("invalid name length")>>
                   /\ exit_status' = ExitStatus("return 1")
                   /\ pc' = "done"
              ELSE IF ~NameCharsOk(args.name)
              THEN /\ events' = events \o <<loaded, Log("invalid name characters")>>
                   /\ exit_status' = ExitStatus("return 1")
                   /\ pc' = "done"
              ELSE /\ events' = Append(events, loaded)
                   /\ pc' = "load_config"
                   /\ UNCHANGED exit_status
    /\ UNCHANGED <<fs_vars, ret, script, args, provider_config, tags, todo, listed, exc>>

\* provision_storage: the storage account name tests
ValidateName ==
    /\ pc = "validate"
    /\ IF ~NameLengthOk(args.name) THEN Exit("invalid name length", "return 1")
       ELSE IF ~NameCharsOk(args.name) THEN Exit("invalid name characters", "return 1")
       ELSE /\ pc' = "load_config"
            /\ UNCHANGED <<events, exit_status>>
    /\ UNCHANGED <<fs_vars, environ, config, ret, script, args, provider_config, tags,
                   todo, listed, exc>>

\* load_config()
LoadConfigStep ==
    /\ pc = "load_config"
    /\ LET r == load_config(cwd_depth, dotenv_at, file, environ)
       IN  /\ environ' = r.environ
           /\ config' = r.config
           /\ IF r.raised # NoException
              THEN Raise(Exc(r.raised, ""), "load_config",
                         Event("config", "load_config", "", "raised", r.raised))
              ELSE /\ events' = Append(events, Event("config", "load_config", "", "ok", ""))
                   /\ pc' = "get_config"
                   /\ UNCHANGED exc
    /\ UNCHANGED <<fs_vars, ret, script, args, provider_config, tags, todo, listed,
                   exit_status>>

\* aws_config = get_aws_config(), and the like; a listing script goes on to
\* its listing function
GetConfigStep ==
    /\ pc = "get_config"
    /\ LET r == get_provider_config(ProviderOf(script), environ)
       IN  IF r.raised # NoException
           THEN /\ Raise(Exc(r.raised, ""), "get_config",
                         Event("config", "get_config", "", "raised", r.raised))
                /\ UNCHANGED <<provider_config, todo>>
           ELSE /\ provider_config' = r.value
                /\ events' = Append(events, Event("config", "get_config", "", "ok", ""))
                /\ pc' = IF ProviderOf(script) = "azure" THEN "credential"
                         ELSE IF IsProvisioning(script) THEN "prepare"
                         ELSE "calls"
                /\ todo' = IF ProviderOf(script) # "azure" /\ ~IsProvisioning(script)
                           THEN ListCalls(script, args) ELSE <<>>
                /\ UNCHANGED exc
    /\ UNCHANGED <<fs_vars, environ, config, ret, script, args, tags, listed, exit_status>>

SdkEvent(c, result) == Event("sdk", c.name, c.effect, result, c.detail)

\* The listing calls main() goes on to once it holds the credential.
AfterCredential(s, a) == IF IsProvisioning(s) THEN <<>> ELSE ListCalls(s, a)

\* credential = get_azure_credential(azure_config): ClientSecretCredential(...)
\* checks the tenant id, the client id and the secret it is given and raises
\* ValueError when it rejects one (an empty value, as a line KEY= loads)
GetAzureCredential ==
    /\ pc = "credential"
    /\ LET c == Call("ClientSecretCredential", "construct", "")
       IN  \/ /\ events' = Append(events, SdkEvent(c, "ok"))
              /\ pc' = IF IsProvisioning(script) THEN "prepare" ELSE "calls"
              /\ todo' = AfterCredential(script, args)
              /\ UNCHANGED exc
           \/ /\ Raise(Exc("ValueError", ""), c.name, SdkEvent(c, "raised"))
              /\ UNCHANGED todo
    /\ UNCHANGED <<fs_vars, environ, config, ret, script, args, provider_config, tags,
                   listed, exit_status>>

\* Prepare without the dry-run test.
PrepareIgnoresDryRun ==
    /\ pc = "prepare"
    /\ tags' = parse_tags(args.tag_list).tags
    /\ pc' = "confirm"
    /\ UNCHANGED <<events, exit_status>>
    /\ UNCHANGED <<fs_vars, environ, config, ret, script, args, provider_config, todo,
                   listed, exc>>

\* A provisioning script: tags = parse_tags(args.tags), the display of what
\* will be created, and the dry-run test
Prepare ==
    /\ pc = "prepare"
    /\ tags' = parse_tags(args.tag_list).tags
    /\ IF args.dry_run
       THEN Exit("dry run", "return 0")
       ELSE /\ pc' = "confirm"
            /\ UNCHANGED <<events, exit_status>>
    /\ UNCHANGED <<fs_vars, environ, config, ret, script, args, provider_config, todo,
                   listed, exc>>

\* Confirm that goes on to create whatever the answer.
ConfirmAnyAnswer ==
    /\ pc = "confirm"
    /\ \E line \in Responses :
          events' = Append(events, Event("prompt", "confirm_action", "",
                                         IF confirm_action(line, FALSE) THEN "True"
                                         ELSE "False", ""))
    /\ todo' = CreateCalls(script, args, provider_config, tags)
    /\ pc' = "calls"
    /\ UNCHANGED <<fs_vars, environ, config, ret, script, args, provider_config, tags,
                   listed, exc, exit_status>>

\* if not confirm_action(..., default=False): return 0; else the creating
\* function is called
Confirm ==
    /\ pc = "confirm"
    /\ \E line \in Responses :
          IF confirm_action(line, FALSE)
          THEN /\ events' = Append(events, Event("prompt", "confirm_action", "", "True", ""))
               /\ todo' = CreateCalls(script, args, provider_config, tags)
               /\ pc' = "calls"
               /\ UNCHANGED exit_status
          ELSE /\ events' = events \o << Event("prompt", "confirm_action", "", "False", ""),
                                        Log("cancelled") >>
               /\ exit_status' = ExitStatus("return 0")
               /\ pc' = "done"
               /\ UNCHANGED todo
    /\ UNCHANGED <<fs_vars, environ, config, ret, script, args, provider_config, tags,
                   listed, exc>>

\* input() raises EOFError when the standard input is at its end
ConfirmEOF ==
    /\ pc = "confirm"
    /\ Raise(Exc("EOFError", ""), "confirm_action",
             Event("prompt", "confirm_action", "", "raised", "EOFError"))
    /\ UNCHANGED <<fs_vars, environ, config, ret, script, args, provider_config, tags,
                   todo, listed, exit_status>>

\* The records a listing adds: list_compute_instances tests the status
\* itself, list_ec2_instances leaves the filter to the service.
Matches(s, a, status) ==
    IF s = "list_compute" THEN ~(Given(a.status) /\ status # a.status)
    ELSE IF s = "list_vms" THEN ~(Given(a.status) /\ Lower(status) # Lower(a.status))
    ELSE TRUE

Records(s, a, c, statuses) ==
    LET Keep(st) == Matches(s, a, st)
        kept == SelectSeq(statuses, Keep)
    IN  [i \in 1..Len(kept) |-> [zone |-> c.detail, status |-> kept[i]]]

\* The next provider SDK call returns; what it returns decides the calls of
\* the loop over it
SdkCallReturns ==
    /\ pc = "calls"
    /\ todo # <<>>
    /\ LET c == Head(todo)
       IN  /\ events' = Append(events, SdkEvent(c, "ok"))
           /\ \/ /\ c.yields = "none"
                 /\ todo' = Tail(todo)
                 /\ UNCHANGED listed
              \/ /\ c.yields = "instances"
                 /\ \E found \in SeqsUpTo(Statuses, MaxInstances) :
                       listed' = listed \o Records(script, args, c, found)
                 /\ todo' = Tail(todo)
              \/ /\ c.yields = "vms"
                 /\ \E n \in 0..MaxInstances :
                       todo' = Tail(todo) \o
                           [i \in 1..n |-> Listing("virtual_machines.instance_view",
                                                   ToString(i), FALSE, "power_state")]
                 /\ UNCHANGED listed
              \/ /\ c.yields = "power_state"
                 /\ \E st \in Statuses \cup {<<"unknown">>} :
                       listed' = listed \o Records(script, args, c, <<st>>)
                 /\ todo' = Tail(todo)
              \/ /\ c.yields = "zones"
                 /\ \E n \in 0..MaxZones :
                       todo' = Tail(todo) \o
                           [i \in 1..n |-> Listing("instances_client.list",
                                                   ToString(i), TRUE, "instances")]
                 /\ UNCHANGED listed
    /\ UNCHANGED <<fs_vars, environ, config, ret, script, args, provider_config, tags,
                   exc, exit_status, pc>>

\* The next provider SDK call raises: the exception leaves the try block of
\* main(), unless the call sits in the try/except of the loop over the zones
SdkCallRaises ==
    /\ pc = "calls"
    /\ todo # <<>>
    /\ LET c == Head(todo)
       IN  \E e \in SdkRaises(ProviderOf(script), c.effect) :
              IF c.swallow
              THEN /\ events' = Append(events, SdkEvent(c, "raised"))
                   /\ todo' = Tail(todo)
                   /\ UNCHANGED <<exc, pc>>
              ELSE /\ Raise(e, c.name, SdkEvent(c, "raised"))
                   /\ todo' = Tail(todo)
    /\ UNCHANGED <<fs_vars, environ, config, ret, script, args, provider_config, tags,
                   listed, exit_status>>

\* instances_client.list returned its pager and the loop over it appended
\* the instances of the pages it was given, then the pager raised on fetching
\* the next page: the exception leaves the loop, for the except clause of the
\* loop over the zones or, with a zone given, for those of main()
SdkIterationRaises ==
    /\ pc = "calls"
    /\ todo # <<>>
    /\ LET c == Head(todo)
       IN  /\ c.name = "instances_client.list"
           /\ \E found \in SeqsUpTo(Statuses, MaxInstances) \ {<<>>} :
                 listed' = listed \o Records(script, args, c, found)
           /\ todo' = Tail(todo)
           /\ \E e \in SdkRaises(ProviderOf(script), c.effect) :
                 IF c.swallow
                 THEN /\ events' = Append(events, SdkEvent(c, "raised"))
                      /\ UNCHANGED <<exc, pc>>
                 ELSE Raise(e, c.name, SdkEvent(c, "raised"))
    /\ UNCHANGED <<fs_vars, environ, config, ret, script, args, provider_config, tags,
                   exit_status>>

\* The creating or listing function returned: the closing messages, return 0
Finish ==
    /\ pc = "calls"
    /\ todo = <<>>
    /\ Exit(IF IsProvisioning(script) THEN "created"
            ELSE IF listed = <<>> THEN "none found"
            ELSE "found", "return 0")
    /\ UNCHANGED <<fs_vars, environ, config, ret, script, args, provider_config, tags,
                   todo, listed, exc>>

\* An except clause that deletes what the run created before it ends main().
HandleExceptionRollsBack ==
    /\ pc = "except"
    /\ events' = events \o
          (IF \E i \in 1..Len(events) :
                 events[i].kind = "sdk" /\ events[i].effect = "write"
                     /\ events[i].result = "ok"
           THEN <<SdkEvent(Call("delete_bucket", "write", ""), "ok")>> ELSE <<>>)
          \o <<Log("error")>>
    /\ exit_status' = ExitStatus(Handler(script, exc))
    /\ pc' = "done"
    /\ UNCHANGED <<fs_vars, environ, config, ret, script, args, provider_config, tags,
                   todo, listed, exc>>

\* The except clause that matches the exception logs the error and ends main()
HandleException ==
    /\ pc = "except"
    /\ Exit("error", Handler(script, exc))
    /\ UNCHANGED <<fs_vars, environ, config, ret, script, args, provider_config, tags,
                   todo, listed, exc>>

Next ==
    \/ Invoke
    \/ ValidateName
    \/ LoadConfigStep
    \/ GetConfigStep
    \/ GetAzureCredential
    \/ Prepare
    \/ Confirm
    \/ ConfirmEOF
    \/ SdkCallReturns
    \/ SdkCallRaises
    \/ SdkIterationRaises
    \/ Finish
    \/ HandleException

Spec == Init /\ [][Next]_vars

-----------------------------------------------------------------------------
(* The runs of main().                                                     *)

Indices(kind) == {i \in 1..Len(events) : events[i].kind = kind}
SdkCalls == Indices("sdk")
WriteCalls == {i \in SdkCalls : events[i].effect = "write"}
Prompts == Indices("prompt")
ConfigOk(name) ==
    {i \in Indices("config") : events[i].name = name /\ events[i].result = "ok"}

\* The closing log message of the run.
LastLog == events[Max(Indices("log"))].name
Succeeded == LastLog \in {"created", "found", "none found"}

\* A required variable of the script's provider is not in the environment.
RequiredMissing ==
    \E i \in 1..Len(ProviderFields(ProviderOf(script))) :
        LET f == ProviderFields(ProviderOf(script))[i]
        IN  f.required /\ f.key \notin DOMAIN environ

\* C1: the exit status of a run of main() is 0 exactly when the run
\* succeeded, was a dry run or was declined at the prompt, and 1 for every
\* handled failure; no run that ends on an exception exits with 0.
C1_ExitStatusTellsFailure ==
    pc = "done" =>
        /\ exit_status \in {0, 1}
        /\ exit_status = 0 <=> (Succeeded \/ LastLog \in {"dry run", "cancelled"})
        /\ exc.type # NoException => exit_status = 1

\* C2: in a provisioning script every provider call that creates or
\* configures a resource comes after a confirm_action that returned True, and
\* after a confirm_action that returned False no such call is issued and
\* main() returns 0.
C2_CreateOnlyAfterConfirmation ==
    IsProvisioning(script) =>
        /\ \A i \in WriteCalls :
              \E j \in Prompts : j < i /\ events[j].result = "True"
        /\ (\E j \in Prompts : events[j].result = "False") =>
              /\ WriteCalls = {}
              /\ pc = "done"
              /\ exit_status = 0

\* A provisioning run that issued a creating call and ended.
C2_Witness ==
    /\ pc = "done"
    /\ IsProvisioning(script)
    /\ WriteCalls # {}
    /\ \E j \in Prompts : events[j].result = "True"

DryRunLoaded ==
    /\ IsProvisioning(script)
    /\ args.dry_run
    /\ ConfigOk("load_config") # {}
    /\ ConfigOk("get_config") # {}

\* C3 as claimed: with --dry-run and the configuration loaded, main() returns
\* 0 without a prompt and without a creating or modifying provider call.
C3_DryRunReturnsZero ==
    DryRunLoaded =>
        /\ Prompts = {}
        /\ WriteCalls = {}
        /\ pc = "done" => exit_status = 0

\* C3 as amended: with --dry-run and the configuration loaded, main() never
\* prompts and issues no creating or modifying provider call; it returns 0,
\* except that provision_storage, which builds its credential before the
\* dry-run test, ends with exit status 1 when ClientSecretCredential raises.
C3_DryRunNeverCreates ==
    DryRunLoaded =>
        /\ Prompts = {}
        /\ WriteCalls = {}
        /\ pc = "done" =>
              IF script = "provision_storage" /\ exc.at = "ClientSecretCredential"
              THEN exit_status = 1
              ELSE exit_status = 0 /\ LastLog = "dry run" /\ exc = NoExc

\* A dry run of provision_storage that ended with exit status 0.
C3_Witness ==
    /\ pc = "done"
    /\ DryRunLoaded
    /\ script = "provision_storage"
    /\ exit_status = 0
    /\ LastLog = "dry run"

\* C4: no provider SDK call is issued unless load_config and then the
\* provider's accessor returned earlier in the run; when the .env file is
\* missing or a required variable is absent the run ends with exit status 1
\* and no provider call.
C4_NoSdkCallBeforeConfig ==
    /\ \A i \in SdkCalls :
          \E j \in ConfigOk("load_config"), k \in ConfigOk("get_config") : j < k /\ k < i
    /\ (pc = "done" /\ (find_env_file(cwd_depth, dotenv_at) = -1 \/ RequiredMissing)) =>
          /\ exit_status = 1
          /\ SdkCalls = {}

\* A run that found its .env file, missed a required variable and ended.
C4_Witness ==
    /\ pc = "done"
    /\ find_env_file(cwd_depth, dotenv_at) # -1
    /\ RequiredMissing
    /\ exc.at = "get_config"
    /\ exit_status = 1
    /\ SdkCalls = {}

-----------------------------------------------------------------------------
(* The runs of the provisioning scripts.                                   *)

\* The call that creates the resource, by script.
CreatingCall(s) ==
    IF s = "provision_s3" THEN "create_bucket"
    ELSE IF s = "provision_bucket" THEN "storage_client.create_bucket"
    ELSE "poller.result"

\* The calls that would delete the resource.
UndoCalls ==
    {"delete_bucket", "bucket.delete", "storage_accounts.delete",
     "storage_accounts.begin_delete"}

\* The resource was created in this run, and at which event.
CreatedAt ==
    {i \in SdkCalls : events[i].name = CreatingCall(script) /\ events[i].result = "ok"}
RaisedAt == {i \in SdkCalls : events[i].result = "raised"}
UndoneAt == {i \in SdkCalls : events[i].name \in UndoCalls}

C18_FailureRollsBackCreation ==
    (pc = "done" /\ script = "provision_s3" /\ exc.type # NoException /\ CreatedAt # {}) =>
        \E j \in UndoneAt : j > Min(CreatedAt) /\ events[j].result = "ok"

\* A name of 3 to 24 characters, lowercase letters and digits only.
LowercaseAlphanumeric(name) ==
    /\ 3 <= Len(name)
    /\ Len(name) <= 24
    /\ \A i \in 1..Len(name) : name[i] \in {"a", "b", "1"}

\* The run ended at the tests of the storage account name.
NameRejected ==
    /\ script = "provision_storage"
    /\ pc = "done"
    /\ LastLog \in {"invalid name length", "invalid name characters"}

\* C19: provision_storage accepts a storage account name exactly when it is
\* 3 to 24 characters long and made of lowercase letters and digits only,
\* names made of digits alone included; every other name ends the run with
\* exit status 1.
C19_NameAcceptedIffLowercaseAlphanumeric ==
    (script = "provision_storage" /\ pc \notin {"invoke", "validate"}) =>
        /\ NameRejected <=> ~LowercaseAlphanumeric(args.name)
        /\ NameRejected => exit_status = 1

\* C20: when provision_storage rejects the storage account name, the run
\* did nothing else: it did not read the .env file, the process environment
\* is as it was, no prompt was shown and no Azure call was issued; the
\* error message is all it did before it ended with exit status 1.
C20_NameRejectedBeforeAnythingElse ==
    NameRejected =>
        /\ Indices("config") = {}
        /\ Prompts = {}
        /\ SdkCalls = {}
        /\ Len(events) = 1
        /\ environ = EmptyDict
        /\ config = EmptyDict
        /\ exit_status = 1

\* A rejected name in a directory whose .env file sets variables.
C20_Witness ==
    /\ NameRejected
    /\ find_env_file(cwd_depth, dotenv_at) # -1
    /\ load_config(cwd_depth, dotenv_at, file, environ).environ # EmptyDict
    /\ environ = EmptyDict

\* The S3 calls of the run so far, in order: what was called and with what.
S3Issued ==
    LET Written(e) == e.kind = "sdk" /\ e.effect = "write"
        written == SelectSeq(events, Written)
    IN  [i \in 1..Len(written) |-> <<written[i].name, written[i].detail>>]

\* The region main() hands to create_s3_bucket: --region, else the region of
\* the configuration.
S3Region ==
    IF args.region # None /\ args.region # <<>> THEN args.region
    ELSE provider_config["region"]

\* The S3 calls of a bucket creation, as the run's arguments require them.
S3Expected ==
    << <<"create_bucket",
         IF S3Region = <<"us-east-1">> THEN "" ELSE "LocationConstraint">>,
       <<"put_public_access_block", "block all">> >>
    \o (IF args.versioning THEN << <<"put_bucket_versioning", "Enabled">> >> ELSE <<>>)
    \o << <<"put_bucket_encryption", args.encryption>> >>
    \o (IF tags # EmptyDict THEN << <<"put_bucket_tagging", "">> >> ELSE <<>>)

\* C21: the S3 calls of a run of provision_s3 are issued in the order
\* create_bucket (with a LocationConstraint exactly when the region is not
\* us-east-1), put_public_access_block with all four flags, put_bucket_versioning
\* exactly when versioning was requested, put_bucket_encryption with the
\* selected algorithm, put_bucket_tagging exactly when the tag mapping is not
\* empty, each after the one before returned; main logs the success only
\* after all of them returned.
C21_S3CallOrder ==
    (script = "provision_s3" /\ WriteCalls # {}) =>
        /\ Len(S3Issued) <= Len(S3Expected)
        /\ S3Issued = SubSeq(S3Expected, 1, Len(S3Issued))
        /\ \A i \in WriteCalls : i < Max(WriteCalls) => events[i].result = "ok"
        /\ (pc = "done" /\ LastLog = "created") =>
              /\ S3Issued = S3Expected
              /\ \A i \in WriteCalls : events[i].result = "ok" /\ i < Max(Indices("log"))

\* A bucket created outside us-east-1 with versioning and tags: five calls.
C21_Witness ==
    /\ script = "provision_s3"
    /\ pc = "done"
    /\ LastLog = "created"
    /\ args.versioning
    /\ args.encryption = "aws:kms"
    /\ tags # EmptyDict
    /\ Len(S3Issued) = 5
    /\ S3Issued[1] = <<"create_bucket", "LocationConstraint">>

-----------------------------------------------------------------------------
(* The runs of list_compute.                                               *)

\* The listings of the instances of a zone, so far: all, those that returned
\* without error, those that raised.
ZoneListings == {i \in SdkCalls : events[i].name = "instances_client.list"}
ZonesListed == {events[i].detail : i \in {j \in ZoneListings : events[j].result = "ok"}}
ZonesFailed == {events[i].detail : i \in {j \in ZoneListings : events[j].result = "raised"}}

\* The event that listed the zone `z`.
ListingOf(z) == CHOOSE i \in ZoneListings : events[i].detail = z

AllZones == script = "list_compute" /\ (args.zone = None \/ args.zone = <<>>)
OneZone == script = "list_compute" /\ args.zone # None /\ args.zone # <<>>

\* C22: without --zone, an error while listing the instances of a zone does
\* not end the run: the zone is skipped, so the result holds no instance of
\* it, the zones that follow are listed, and the result holds instances of
\* the zones that listed without error only, each matching the status
\* filter, in the order of the zones, and main() returns 0; with --zone, an
\* error of the listing ends the run with exit status 1.
C22_FailedZoneIsSkipped ==
    /\ AllZones =>
          /\ \A r \in 1..Len(listed) :
                /\ listed[r].zone \in ZonesListed
                /\ listed[r].zone \notin ZonesFailed
                /\ (args.status # None) => listed[r].status = args.status
          /\ \A r, q \in 1..Len(listed) :
                r < q => ListingOf(listed[r].zone) <= ListingOf(listed[q].zone)
          /\ (ZonesFailed # {} /\ exc.type = NoException) => pc \in {"calls", "done"}
          /\ (pc = "done" /\ ZoneListings # {} /\ exc.type = NoException) =>
                (exit_status = 0 /\ todo = <<>>)
    /\ (OneZone /\ pc = "done" /\ ZonesFailed # {}) => exit_status = 1

\* Listings of the zones of a project that raise at the call and never
\* between two pages: the runs in which C22 holds.
ZoneErrorsAtTheCallOnly ==
    (\A r \in 1..Len(listed) : listed[r].zone \notin ZonesFailed) => C22_FailedZoneIsSkipped

-----------------------------------------------------------------------------
(* find_env_file on its own, iteration by iteration, over working          *)
(* directories at every depth up to MaxDepth and every placement of .env   *)
(* files in the working directory and its ancestors.                       *)

\* The deepest working directory: the number of its ancestors.
MaxDepth == 6

\* The .env file every directory that has one holds.
FoundFile == <<<<"a", EQ, "a">>>>

InitFind ==
    /\ cwd_depth \in 0..MaxDepth
    /\ dotenv_at \in SUBSET (0..cwd_depth)
    /\ file = FoundFile
    /\ environ = EmptyDict
    /\ config = EmptyDict
    /\ pc = "start"
    /\ ret = NoCall
    /\ script = "none"
    /\ args = NoArgs
    /\ provider_config = EmptyDict
    /\ tags = EmptyDict
    /\ events = <<>>
    /\ todo = <<>>
    /\ listed = <<>>
    /\ exc = NoExc
    /\ exit_status = -1

\* current = Path.cwd(), before the first iteration of the loop.  `current`
\* is the distance of the directory from the working directory, `left` the
\* iterations range(5) still has, `examined` the directories whose .env was
\* tested with exists(), in order.
FindEnvFileEnter ==
    /\ pc = "start"
    /\ ret' = [fn |-> "find_env_file", current |-> 0, left |-> SearchLevels,
               examined |-> <<>>, value |-> -1]
    /\ pc' = "find"
    /\ UNCHANGED <<cwd_depth, dotenv_at, file, environ, config, run_vars>>

\* One iteration of the loop: return the path when it exists, break at the
\* root (current == current.parent), else climb; the function returns None
\* after the break and after the last iteration.
FindEnvFileIteration ==
    /\ pc = "find"
    /\ LET cur == ret.current
           seen == Append(ret.examined, cur)
       IN  IF cur \in dotenv_at
           THEN /\ ret' = [ret EXCEPT !.examined = seen, !.value = cur]
                /\ pc' = "found"
           ELSE IF cur = cwd_depth
           THEN /\ ret' = [ret EXCEPT !.examined = seen, !.value = -1]
                /\ pc' = "found"
           ELSE IF ret.left = 1
           THEN /\ ret' = [ret EXCEPT !.examined = seen, !.current = cur + 1,
                                      !.left = 0, !.value = -1]
                /\ pc' = "found"
           ELSE /\ ret' = [ret EXCEPT !.examined = seen, !.current = cur + 1,
                                      !.left = @ - 1]
                /\ pc' = "find"
    /\ UNCHANGED <<cwd_depth, dotenv_at, file, environ, config, run_vars>>

NextFind == FindEnvFileEnter \/ FindEnvFileIteration \/ LoadConfig

SpecFind == InitFind /\ [][NextFind]_vars

\* The nearest of the working directory (0) and its first 4 ancestors that
\* holds a .env, or -1 when none of them does.
NearestOfFive ==
    LET near == {d \in dotenv_at : d <= 4}
    IN  IF near = {} THEN -1 ELSE Min(near)

\* The farthest directory a search may examine: the 4th ancestor, or the
\* filesystem root when the working directory has fewer ancestors.
FarthestOfFive == IF cwd_depth < 4 THEN cwd_depth ELSE 4

FindReturned == pc = "found" /\ ret.fn = "find_env_file"

\* C11: find_env_file examines the working directory and then at most 4
\* ancestors, nearest first and never beyond the filesystem root; it returns
\* the .env of the nearest examined directory that has one and stops there,
\* and returns None when none of these at most 5 directories has one, even
\* if a more distant ancestor does; load_config raises FileNotFoundError
\* exactly in that case.
C11_FindEnvFileNearestOfFive ==
    /\ (ret.fn = "find_env_file") =>
          /\ Len(ret.examined) <= 5
          /\ \A i \in 1..Len(ret.examined) :
                ret.examined[i] = i - 1 /\ ret.examined[i] <= cwd_depth
    /\ FindReturned =>
          /\ ret.value = NearestOfFive
          /\ ret.value = find_env_file(cwd_depth, dotenv_at)
          /\ Len(ret.examined) =
                (IF ret.value = -1 THEN FarthestOfFive ELSE ret.value) + 1
    /\ (pc = "loaded" /\ ret.fn = "load_config") =>
          (ret.raised = "FileNotFoundError" <=> NearestOfFive = -1)

\* A search that returned None after five directories although a more
\* distant ancestor holds a .env.
C11_Witness ==
    /\ FindReturned
    /\ ret.value = -1
    /\ Len(ret.examined) = 5
    /\ \E d \in dotenv_at : d >= 5

-----------------------------------------------------------------------------
(* scripts/common/utils.py: format_output and format_table.                *)
(*                                                                         *)
(* A record (a dict) is the sequence of its <<key, value>> pairs in        *)
(* insertion order, the keys distinct; a key is a text and a value is a    *)
(* text or None.                                                           *)

NL == "\n"

\* str(value) of a key or a cell: the text itself, 'None' for None
Str(value) == IF value = None THEN <<"N", "o", "n", "e">> ELSE value

\* sep.join(parts)
RECURSIVE Join(_, _)
Join(parts, sep) ==
    IF parts = <<>> THEN <<>>
    ELSE IF Len(parts) = 1 THEN parts[1]
    ELSE parts[1] \o sep \o Join(Tail(parts), sep)

\* c * n
Repeat(c, n) == [i \in 1..n |-> c]

\* s.ljust(width)
Ljust(s, width) == IF Len(s) >= width THEN s ELSE s \o Repeat(SP, width - Len(s))

\* list(row.keys())
DictKeys(row) == [i \in 1..Len(row) |-> row[i][1]]

\* A lookup that answers None for a key the record lacks.
DictGetOrNone(row, key, default) ==
    LET at == {i \in 1..Len(row) : row[i][1] = key}
    IN  IF at = {} THEN None ELSE row[CHOOSE i \in at : TRUE][2]

\* row.get(key, default)
DictGet(row, key, default) ==
    LET at == {i \in 1..Len(row) : row[i][1] = key}
    IN  IF at = {} THEN default ELSE row[CHOOSE i \in at : TRUE][2]

\* The loop over the rows that widens the column of `key` from `width`.
RECURSIVE ColumnWidth(_, _, _)
ColumnWidth(rows, key, width) ==
    IF rows = <<>> THEN width
    ELSE LET value_len == Len(Str(DictGet(Head(rows), key, <<>>)))
         IN  ColumnWidth(Tail(rows), key, IF value_len > width THEN value_len ELSE width)

NoData == <<"N", "o", " ", "d", "a", "t", "a">>

\* format_table(data): the text returned
format_table(data) ==
    IF data = <<>> THEN NoData
    ELSE LET keys == DictKeys(data[1])
             widths == [k \in 1..Len(keys) |-> ColumnWidth(data, keys[k], Len(Str(keys[k])))]
             header == Join([k \in 1..Len(keys) |-> Ljust(Str(keys[k]), widths[k])],
                            <<SP, "|", SP>>)
             separator == Join([k \in 1..Len(keys) |-> Repeat("-", widths[k])],
                               <<"-", "+", "-">>)
             rows == [r \in 1..Len(data) |->
                         Join([k \in 1..Len(keys) |->
                                  Ljust(Str(DictGet(data[r], keys[k], <<>>)), widths[k])],
                              <<SP, "|", SP>>)]
         IN  Join(<<header, separator>> \o rows, <<NL>>)

\* The escapes repr() and json.dumps write for the characters of a text;
\* of the characters of the model only the line break has one.
Escaped(s) ==
    IF s = <<>> THEN <<>>
    ELSE Join([i \in 1..Len(s) |-> IF s[i] = NL THEN <<"\\", "n">> ELSE <<s[i]>>], <<>>)

\* repr(value) of a key or a cell
Repr(value) ==
    IF value = None THEN <<"N", "o", "n", "e">> ELSE <<SQ>> \o Escaped(value) \o <<SQ>>

\* str(data) of a list of dicts
StrOfList(data) ==
    LET Item(row) ==
            <<"{">> \o Join([i \in 1..Len(row) |->
                                Repr(row[i][1]) \o <<":", SP>> \o Repr(row[i][2])],
                            <<",", SP>>) \o <<"}">>
    IN  <<"[">> \o Join([r \in 1..Len(data) |-> Item(data[r])], <<",", SP>>) \o <<"]">>

\* json.dumps(value) of a key or a cell
JsonOf(value) ==
    IF value = None THEN <<"n", "u", "l", "l">> ELSE <<DQ>> \o Escaped(value) \o <<DQ>>

\* json.dumps(data, indent=2, default=str) of a list of dicts
JsonDumps(data) ==
    LET Member(pair) == Repeat(SP, 4) \o JsonOf(pair[1]) \o <<":", SP>> \o JsonOf(pair[2])
        Item(row) ==
            IF row = <<>> THEN <<"{", "}">>
            ELSE <<"{", NL>> \o Join([i \in 1..Len(row) |-> Member(row[i])], <<",", NL>>)
                     \o <<NL, SP, SP, "}">>
    IN  IF data = <<>> THEN <<"[", "]">>
        ELSE <<"[", NL>> \o Join([r \in 1..Len(data) |-> Repeat(SP, 2) \o Item(data[r])],
                                 <<",", NL>>)
                 \o <<NL, "]">>

OutputFormats == {"json", "table", "text"}

\* format_output(data, output_format) of a list of dicts
format_output(data, output_format) ==
    IF output_format = "json" THEN JsonDumps(data)
    ELSE IF output_format = "table"
    THEN IF Len(data) > 0 THEN format_table(data) ELSE StrOfList(data)
    ELSE StrOfList(data)

-----------------------------------------------------------------------------
(* The helpers of utils.py called on their own.                            *)

\* The longest cell of a record, and the most records of a list.
MaxCellLen == 2
MaxRows == 2
\* The longest entry of a one-entry tag list, and the most entries of a list.
MaxTagLen == 4
MaxTags == 3
\* The longest line answered to the prompt.
MaxResponseLen == 4

TextsUpTo(alphabet, n) == UNION {[1..k -> alphabet] : k \in 0..n}

\* The keys of the first record of a list, and the values of its cells.
TableKeys == {<<"a">>, <<"b", "b">>}
Cells == TextsUpTo({"x", NL}, MaxCellLen) \cup {None}

\* The first record of a list: every record of at most two columns.
FirstRecords ==
    {<<>>}
    \cup {<< <<k, v>> >> : k \in TableKeys, v \in Cells}
    \cup {<< <<k[1], v1>>, <<k[2], v2>> >> :
             k \in {kk \in TableKeys \X TableKeys : kk[1] # kk[2]},
             v1 \in Cells, v2 \in Cells}

\* The records that follow the first: uniform with it or not.
SampleRecords ==
    { <<>>,
      << <<<<"a">>, <<"x">>>> >>,
      << <<<<"a">>, <<"x", "x", "x">>>>, <<<<"b", "b">>, <<>>>> >>,
      << <<<<"b", "b">>, <<"x">>>>, <<<<"a">>, None>> >>,
      << <<<<"c">>, <<"x", "x", "x", "x">>>>, <<<<"a">>, <<"x">>>> >> }

TableData ==
    {<<>>} \cup {<<first>> \o rest :
                    first \in FirstRecords, rest \in SeqsUpTo(SampleRecords, MaxRows - 1)}

\* The entries of the tag lists (--tags, --labels).
SampleTags ==
    { <<"k", EQ, "v">>,
      <<"b">>,
      <<"j", EQ, "v">>,
      <<SP, "k", SP, EQ, SP, "w", SP>>,
      <<"k", EQ, "v", EQ, "w">>,
      <<>> }

TagInputs ==
    {<<t>> : t \in TextsUpTo({"k", EQ, SP}, MaxTagLen)} \cup SeqsUpTo(SampleTags, MaxTags)

\* The lines read from standard input.
ResponseLines == TextsUpTo({SP, "y", "Y", "e", "E", "s", "n"}, MaxResponseLen)

InitUtils ==
    /\ cwd_depth = 0
    /\ dotenv_at = {}
    /\ file = <<>>
    /\ environ = EmptyDict
    /\ config = EmptyDict
    /\ pc = "start"
    /\ ret = NoCall
    /\ script = "none"
    /\ args = NoArgs
    /\ provider_config = EmptyDict
    /\ tags = EmptyDict
    /\ events = <<>>
    /\ todo = <<>>
    /\ listed = <<>>
    /\ exc = NoExc
    /\ exit_status = -1

\* format_table(data)
FormatTable ==
    /\ pc = "start"
    /\ \E data \in TableData :
          ret' = [fn |-> "format_table", data |-> data, value |-> format_table(data)]
    /\ pc' = "returned"
    /\ UNCHANGED <<cwd_depth, dotenv_at, file, environ, config, run_vars>>

\* format_output(data, output_format)
FormatOutput ==
    /\ pc = "start"
    /\ \E data \in TableData, output_format \in OutputFormats :
          ret' = [fn |-> "format_output", data |-> data, output_format |-> output_format,
                  value |-> format_output(data, output_format)]
    /\ pc' = "returned"
    /\ UNCHANGED <<cwd_depth, dotenv_at, file, environ, config, run_vars>>

\* parse_tags(tag_list)
ParseTags ==
    /\ pc = "start"
    /\ \E tag_list \in TagInputs :
          LET r == parse_tags(tag_list)
          IN  ret' = [fn |-> "parse_tags", tag_list |-> tag_list, value |-> r.tags,
                      warnings |-> r.warnings]
    /\ pc' = "returned"
    /\ UNCHANGED <<cwd_depth, dotenv_at, file, environ, config, run_vars>>

\* confirm_action(message, default) with `line` read by input()
ConfirmAction ==
    /\ pc = "start"
    /\ \E line \in ResponseLines, default \in BOOLEAN :
          ret' = [fn |-> "confirm_action", line |-> line, default |-> default,
                  value |-> confirm_action(line, default)]
    /\ pc' = "returned"
    /\ UNCHANGED <<cwd_depth, dotenv_at, file, environ, config, run_vars>>

NextUtils == FormatTable \/ FormatOutput \/ ParseTags \/ ConfirmAction

SpecUtils == InitUtils /\ [][NextUtils]_vars

-----------------------------------------------------------------------------
(* What the specification says of a table, stated on the text returned.    *)

Returned(fn) == pc = "returned" /\ ret.fn = fn

\* C12: table formatting of the empty list returns "No data", through
\* format_table([]) and through format_output([], 'table') alike.
C12_EmptyListIsNoData ==
    /\ (Returned("format_table") /\ ret.data = <<>>) => ret.value = NoData
    /\ (Returned("format_output") /\ ret.output_format = "table" /\ ret.data = <<>>) =>
          ret.value = NoData

\* The lines of a text: its pieces between line breaks.
RECURSIVE LinesOf(_)
LinesOf(s) ==
    LET breaks == {i \in 1..Len(s) : s[i] = NL}
    IN  IF breaks = {} THEN <<s>>
        ELSE <<SubSeq(s, 1, Min(breaks) - 1)>> \o LinesOf(SubSeq(s, Min(breaks) + 1, Len(s)))

\* The text of the cell of `row` in the column `key`: empty when the row
\* lacks the key.
CellText(row, key) ==
    LET at == {i \in 1..Len(row) : row[i][1] = key}
    IN  IF at = {} THEN <<>> ELSE Str(row[CHOOSE i \in at : TRUE][2])

\* The width of a column: the longest of its header and its cells.
WidthOf(data, key) ==
    Max({Len(key)} \cup {Len(CellText(data[r], key)) : r \in 1..Len(data)})

Padded(s, width) == s \o [i \in 1..(width - Len(s)) |-> SP]

\* The columns of a table: the keys of its first record, in its order.
ColumnsOf(data) == [k \in 1..Len(data[1]) |-> data[1][k][1]]

HeaderLine(data) ==
    Join([k \in 1..Len(ColumnsOf(data)) |->
             Padded(ColumnsOf(data)[k], WidthOf(data, ColumnsOf(data)[k]))], <<SP, "|", SP>>)

SeparatorLine(data) ==
    Join([k \in 1..Len(ColumnsOf(data)) |->
             [i \in 1..WidthOf(data, ColumnsOf(data)[k]) |-> "-"]], <<"-", "+", "-">>)

RecordLine(data, r) ==
    Join([k \in 1..Len(ColumnsOf(data)) |->
             Padded(CellText(data[r], ColumnsOf(data)[k]),
                    WidthOf(data, ColumnsOf(data)[k]))], <<SP, "|", SP>>)

KeySet(row) == {row[i][1] : i \in 1..Len(row)}

\* Records with the same keys.
Uniform(data) == \A r \in 1..Len(data) : KeySet(data[r]) = KeySet(data[1])

\* C13: for a non-empty list of uniform records format_table returns
\* len(data)+2 lines: the header, the separator and one line per record in
\* input order, each cell padded on the right to the width of its column
\* (the longest of the header and the cells), cells joined by " | " and the
\* dashes of the separator by "-+-", all lines of the same length.
C13_TableLayout ==
    (Returned("format_table") /\ ret.data # <<>> /\ Uniform(ret.data)) =>
        LET lines == LinesOf(ret.value)
        IN  /\ Len(lines) = Len(ret.data) + 2
            /\ lines[1] = HeaderLine(ret.data)
            /\ lines[2] = SeparatorLine(ret.data)
            /\ \A r \in 1..Len(ret.data) : lines[r + 2] = RecordLine(ret.data, r)
            /\ \A i, j \in 1..Len(lines) : Len(lines[i]) = Len(lines[j])

\* C13 for the tables none of whose headers and cells holds a line break.
NoLineBreak(data) ==
    \A r \in 1..Len(data) : \A i \in 1..Len(data[r]) :
        /\ \A c \in 1..Len(data[r][i][1]) : data[r][i][1][c] # NL
        /\ \A c \in 1..Len(data[r][i][2]) : data[r][i][2][c] # NL

TableLayoutWithoutLineBreaks ==
    (Returned("format_table") /\ ret.data # <<>> /\ NoLineBreak(ret.data)) =>
        LET lines == LinesOf(ret.value)
        IN  /\ Len(lines) = Len(ret.data) + 2
            /\ lines[1] = HeaderLine(ret.data)
            /\ lines[2] = SeparatorLine(ret.data)
            /\ \A r \in 1..Len(ret.data) : lines[r + 2] = RecordLine(ret.data, r)
            /\ \A i, j \in 1..Len(lines) : Len(lines[i]) = Len(lines[j])

TagEntries(tag_list) == {i \in 1..Len(tag_list) : EqAt(tag_list[i]) # {}}
TagKey(tag) == Trim(SubSeq(tag, 1, Min(EqAt(tag)) - 1))
TagValue(tag) == Trim(SubSeq(tag, Min(EqAt(tag)) + 1, Len(tag)))

\* C15: parse_tags returns the mapping of the entries that hold '=', each
\* split at its first '=' with key and value trimmed, where the last entry
\* of a key gives its value; every entry without '=' is skipped with one
\* warning, so the warnings number the entries without '='; an empty (or
\* None) list gives the empty mapping and no warning.
C15_ParseTagsContract ==
    Returned("parse_tags") =>
        LET tag_list == ret.tag_list
            entries == TagEntries(tag_list)
        IN  /\ DOMAIN ret.value = {TagKey(tag_list[i]) : i \in entries}
            /\ \A i \in entries :
                  (\A j \in entries : j > i => TagKey(tag_list[j]) # TagKey(tag_list[i])) =>
                      ret.value[TagKey(tag_list[i])] = TagValue(tag_list[i])
            /\ ret.warnings = Cardinality((1..Len(tag_list)) \ entries)
            /\ tag_list = <<>> => (ret.value = EmptyDict /\ ret.warnings = 0)

\* ["k=v", "b", "j=v"]: two tags and one warning.
C15_Witness ==
    /\ Returned("parse_tags")
    /\ Len(ret.tag_list) = 3
    /\ TagEntries(ret.tag_list) = {1, 3}
    /\ Cardinality(DOMAIN ret.value) = 2
    /\ ret.warnings = 1

\* The spellings of 'y' and of 'yes' in either case.
Affirmative ==
    {<<y>> : y \in {"y", "Y"}}
    \cup {<<y, e, s>> : y \in {"y", "Y"}, e \in {"e", "E"}, s \in {"s", "S"}}

\* C16: confirm_action returns the caller's default when the line read is
\* empty after trimming, True when the trimmed line is 'y' or 'yes' in any
\* case whatever the default, and False for every other line whatever the
\* default.
C16_ConfirmActionContract ==
    Returned("confirm_action") =>
        ret.value = (IF Trim(ret.line) = <<>> THEN ret.default
                     ELSE Trim(ret.line) \in Affirmative)

\* ' YEs' answered to a prompt whose default is False.
C16_Witness ==
    /\ Returned("confirm_action")
    /\ ret.default = FALSE
    /\ ret.value = TRUE
    /\ Trim(ret.line) # ret.line
    /\ Trim(ret.line) \notin {<<"y">>, <<"y", "e", "s">>}

-----------------------------------------------------------------------------
(* The import of the common package by a script, statement by statement:   *)
(* scripts/common/__init__.py and the "from common import" of each script. *)

\* The names each module of the package defines at its top level.
ModuleNames(module) ==
    IF module = "config"
    THEN {"find_env_file", "load_config", "get_env", "get_aws_config", "get_gcp_config",
          "get_azure_config"}
    ELSE IF module = "logger" THEN {"setup_logger", "get_logger"}
    ELSE {"confirm_action", "format_output", "format_table", "parse_tags", "handle_error"}

\* The import statements of common/__init__.py: from .module import names
PackageImports ==
    << [module |-> "config", names |-> <<"load_config", "get_env">>],
       [module |-> "logger", names |-> <<"setup_logger", "get_logger">>],
       [module |-> "utils", names |-> <<"confirm_action", "format_output">>] >>

\* from common import ...: the names each script asks for, in order
ScriptImports(s) ==
    LET get_config == IF ProviderOf(s) = "aws" THEN "get_aws_config"
                      ELSE IF ProviderOf(s) = "azure" THEN "get_azure_config"
                      ELSE "get_gcp_config"
    IN  IF IsProvisioning(s)
        THEN <<"setup_logger", "load_config", get_config, "confirm_action", "parse_tags",
               "handle_error">>
        ELSE <<"setup_logger", "load_config", get_config, "format_output", "handle_error">>

Range(seq) == {seq[i] : i \in 1..Len(seq)}

\* python <script>.py in a directory: nothing is imported yet.
InitImport ==
    /\ \/ /\ cwd_depth = 0
          /\ dotenv_at = {}
          /\ file = <<>>
       \/ /\ cwd_depth = 1
          /\ dotenv_at = {1}
          /\ file \in ScriptFiles
    /\ environ = EmptyDict
    /\ config = EmptyDict
    /\ pc = "import"
    /\ ret = [fn |-> "import", namespace |-> {}, pending |-> PackageImports]
    /\ script \in Scripts
    /\ args = NoArgs
    /\ provider_config = EmptyDict
    /\ tags = EmptyDict
    /\ events = <<>>
    /\ todo = <<>>
    /\ listed = <<>>
    /\ exc = NoExc
    /\ exit_status = -1

\* An exception at the top level of the script: traceback, exit status 1.
ImportFails(name) ==
    /\ exc' = [type |-> "ImportError", code |-> "", at |-> name]
    /\ events' = Append(events, Event("import", name, "", "raised", "ImportError"))
    /\ exit_status' = 1
    /\ pc' = "done"
    /\ UNCHANGED ret

\* One import statement of common/__init__.py: the submodule and the names
\* taken from it are bound in the package; after the last, the script's own
\* from-import starts.
ImportPackageStatement ==
    /\ pc = "import"
    /\ LET st == Head(ret.pending)
       IN  IF Range(st.names) \subseteq ModuleNames(st.module)
           THEN /\ ret' = [ret EXCEPT
                             !.namespace = @ \cup {st.module} \cup Range(st.names),
                             !.pending = IF Len(@) = 1 THEN ScriptImports(script)
                                         ELSE Tail(@)]
                /\ pc' = IF Len(ret.pending) = 1 THEN "from_common" ELSE "import"
                /\ events' = Append(events, Event("import", st.module, "", "ok", ""))
                /\ UNCHANGED <<exc, exit_status>>
           ELSE ImportFails(st.module)
    /\ UNCHANGED <<fs_vars, environ, config, script, args, provider_config, tags, todo,
                   listed>>

\* One name of the script's "from common import ...": it is an attribute of
\* the package, or else a submodule of it, or else ImportError; after the
\* last name the script goes on to define and call main().
ImportFromCommon ==
    /\ pc = "from_common"
    /\ LET name == Head(ret.pending)
       IN  IF name \in ret.namespace
           THEN /\ ret' = [ret EXCEPT !.pending = Tail(@)]
                /\ pc' = IF Len(ret.pending) = 1 THEN "main" ELSE "from_common"
                /\ events' = Append(events, Event("import", name, "", "ok", ""))
                /\ UNCHANGED <<exc, exit_status>>
           ELSE ImportFails(name)
    /\ UNCHANGED <<fs_vars, environ, config, script, args, provider_config, tags, todo,
                   listed>>

NextImport == ImportPackageStatement \/ ImportFromCommon

SpecImport == InitImport /\ [][NextImport]_vars

\* C23: every name a script imports from the common package is a name the
\* package exposes, so the import of no script raises ImportError and every
\* script goes on to main().
C23_ImportedNamesExposed ==
    /\ pc = "from_common" => Range(ret.pending) \subseteq ret.namespace
    /\ exc.type # "ImportError"
    /\ pc # "done"

=============================================================================
